---- MODULE Spec2Model ----
(***************************************************************************)
(* Model of the pattern-matching engine of sea_ice_drift (pmlib.py and the *)
(* helpers of lib.py it uses).                                             *)
(*                                                                         *)
(* Numbers.  Pixel coordinates, sizes and margins are integers.  np.nan is *)
(* the value NaN below; every arithmetic helper propagates it and every    *)
(* comparison with it is FALSE, as in numpy.  A border (search distance)   *)
(* is a Euclidean length, in general the square root of an integer, so a   *)
(* border is kept as its SQUARE (a "b2" value): clamping and comparisons   *)
(* are then exact.  Matched coordinates on image 2 can be half-integers,   *)
(* so results of matching are kept in HALF PIXELS (an "h" suffix).         *)
(***************************************************************************)
EXTENDS Integers, Sequences, FiniteSets, TLC

VARIABLES
    inp,            \* the arguments of pattern_matching (fixed per behaviour)
    threads,        \* the threads argument of the current call
    pc,             \* position of the calling process
    loc,            \* local variables of the current call (first guess, gpi, ...)
    shared_args,    \* pmlib.shared_args of the calling process
    shared_kwargs,  \* pmlib.shared_kwargs of the calling process
    shared_before,  \* the two globals as they were when the current call began
    workers,        \* pool worker processes: their globals, chunk and progress
    taskq,          \* chunks of the map not yet taken by a worker
    results,        \* gathered per-point results (list / MapResult._value)
    ran,            \* the matching tasks (indices from 0) executed by this call
    out,            \* what the current call returned
    job,            \* the MapResult of the pool's map
    prev            \* threads and outcome of the previous call

vars == <<inp, threads, pc, loc, shared_args, shared_kwargs, shared_before,
          workers, taskq, results, ran, out, job, prev>>

----------------------------------------------------------------------------
(* numpy floats *)

\* F(v), with v computed once
Bind(v, F(_)) == CHOOSE r \in {F(x) : x \in {v}} : TRUE

None == <<>>

NaN == -1000000

IsNaN(v) == v = NaN

Add(a, b) == IF IsNaN(a) \/ IsNaN(b) THEN NaN ELSE a + b

Sub(a, b) == IF IsNaN(a) \/ IsNaN(b) THEN NaN ELSE a - b

Mul(a, b) == IF IsNaN(a) \/ IsNaN(b) THEN NaN ELSE a * b

\* np.hypot(a, b), squared
Hypot2(a, b) == IF IsNaN(a) \/ IsNaN(b) THEN NaN ELSE a * a + b * b

Abs(a) == IF a < 0 THEN -a ELSE a

\* floor and ceiling of the square root of a natural number
Isqrt(n) ==
    LET RECURSIVE Go(_)
        Go(r) == IF (r + 1) * (r + 1) > n THEN r ELSE Go(r + 1)
    IN Go(0)

CeilSqrt(n) == IF Isqrt(n) * Isqrt(n) = n THEN Isqrt(n) ELSE Isqrt(n) + 1

\* np.uint16(v) and v.astype(np.int16) of a finite value: truncation, then wrap
ToUint16(v) == v % 65536

ToInt16(v) == ((v + 32768) % 65536) - 32768

SeqSum(s) ==
    LET RECURSIVE Go(_)
        Go(k) == IF k = 0 THEN 0 ELSE s[k] + Go(k - 1)
    IN Go(Len(s))

\* a[mask] : the entries of a where the boolean mask holds, in order
Compress(a, mask) ==
    LET RECURSIVE Go(_)
        Go(k) == IF k = 0 THEN <<>>
                 ELSE IF mask[k] THEN Append(Go(k - 1), a[k]) ELSE Go(k - 1)
    IN Go(Len(mask))

\* number of TRUE entries among the first k of mask
CountTrue(mask, k) == Cardinality({j \in 1..k : mask[j]})

----------------------------------------------------------------------------
(* Nansat: an image with a pixel <-> geographic transform.  The transform  *)
(* of image n is the translation lon = x + n.ox, lat = y + n.oy.           *)

\* n.transform_points(xs, ys, dst): dst = 0 pixel -> lon/lat, dst = 1 back
transform_points(n, xs, ys, dst) ==
    IF dst = 0
    THEN [x |-> [k \in 1..Len(xs) |-> Add(xs[k], n.ox)],
          y |-> [k \in 1..Len(ys) |-> Add(ys[k], n.oy)]]
    ELSE [x |-> [k \in 1..Len(xs) |-> Sub(xs[k], n.ox)],
          y |-> [k \in 1..Len(ys) |-> Sub(ys[k], n.oy)]]

\* n.shape() = (rows, columns)
shape(n) == <<n.h, n.w>>

----------------------------------------------------------------------------
(* lib.interpolation_poly (order = 1) and lib.interpolation_near (linear)  *)

CoefSet == {<<a, b, c>> : a \in -8..8, b \in 0..1, c \in 0..1}

\* np.linalg.lstsq(A, v) for A = [1, x1, y1]: the coefficients whose
\* residual is orthogonal to every column of A (the normal equations)
lstsq(x1, y1, v) ==
    CHOOSE b \in CoefSet :
        LET res == [k \in 1..Len(x1) |-> v[k] - b[1] - b[2] * x1[k] - b[3] * y1[k]]
        IN /\ SeqSum(res) = 0
           /\ SeqSum([k \in 1..Len(x1) |-> res[k] * x1[k]]) = 0
           /\ SeqSum([k \in 1..Len(x1) |-> res[k] * y1[k]]) = 0

PolyEval(b, x, y) == Add(b[1], Add(Mul(b[2], x), Mul(b[3], y)))

interpolation_poly(x1, y1, x2, y2, x1grd, y1grd) ==
    IF Len(y1) # Len(x1) \/ Len(x2) # Len(x1) \/ Len(y2) # Len(x1)
    THEN [raised |-> "ValueError"]
    ELSE LET Bx == lstsq(x1, y1, x2)
             By == lstsq(x1, y1, y2)
         IN [raised |-> "",
             x |-> [k \in 1..Len(x1grd) |-> PolyEval(Bx, x1grd[k], y1grd[k])],
             y |-> [k \in 1..Len(x1grd) |-> PolyEval(By, x1grd[k], y1grd[k])]]

Sign(a) == IF a > 0 THEN 1 ELSE IF a < 0 THEN -1 ELSE 0

\* twice the signed area of triangle a, b, c
Orient(ax, ay, bx, by, cx, cy) == (bx - ax) * (cy - ay) - (by - ay) * (cx - ax)

\* is d strictly inside the circle through a, b, c?
InCircle(ax, ay, bx, by, cx, cy, dx, dy) ==
    LET adx == ax - dx   ady == ay - dy   ad2 == adx * adx + ady * ady
        bdx == bx - dx   bdy == by - dy   bd2 == bdx * bdx + bdy * bdy
        cdx == cx - dx   cdy == cy - dy   cd2 == cdx * cdx + cdy * cdy
        det == adx * (bdy * cd2 - cdy * bd2) - ady * (bdx * cd2 - cdx * bd2)
               + ad2 * (bdx * cdy - cdx * bdy)
    IN Sign(det) * Sign(Orient(ax, ay, bx, by, cx, cy)) > 0

\* the Delaunay triangulation griddata builds over the source points
Delaunay(x1, y1) ==
    {t \in {<<i, j, k>> : i \in 1..Len(x1), j \in 1..Len(x1), k \in 1..Len(x1)} :
        /\ t[1] < t[2] /\ t[2] < t[3]
        /\ Orient(x1[t[1]], y1[t[1]], x1[t[2]], y1[t[2]], x1[t[3]], y1[t[3]]) # 0
        /\ \A d \in 1..Len(x1) :
              ~InCircle(x1[t[1]], y1[t[1]], x1[t[2]], y1[t[2]],
                        x1[t[3]], y1[t[3]], x1[d], y1[d])}

\* barycentric weights (times the doubled area D) of q in triangle t
BaryW(x1, y1, t, qx, qy) ==
    LET D  == Orient(x1[t[1]], y1[t[1]], x1[t[2]], y1[t[2]], x1[t[3]], y1[t[3]])
        w1 == Orient(qx, qy, x1[t[2]], y1[t[2]], x1[t[3]], y1[t[3]])
        w2 == Orient(x1[t[1]], y1[t[1]], qx, qy, x1[t[3]], y1[t[3]])
        w3 == Orient(x1[t[1]], y1[t[1]], x1[t[2]], y1[t[2]], qx, qy)
    IN IF D > 0 THEN <<w1, w2, w3, D>> ELSE <<-w1, -w2, -w3, -D>>

InTriangle(x1, y1, t, qx, qy) ==
    LET w == BaryW(x1, y1, t, qx, qy)
    IN w[1] >= 0 /\ w[2] >= 0 /\ w[3] >= 0

\* scipy griddata(src, v, dst, method='linear') at one point: NaN outside
\* the convex hull of the source points, piecewise linear inside
griddata(x1, y1, v, qx, qy) ==
    IF IsNaN(qx) \/ IsNaN(qy) THEN NaN
    ELSE LET inside == {t \in Delaunay(x1, y1) : InTriangle(x1, y1, t, qx, qy)}
         IN IF inside = {} THEN NaN
            ELSE LET t == CHOOSE s \in inside : TRUE
                     w == BaryW(x1, y1, t, qx, qy)
                 IN (w[1] * v[t[1]] + w[2] * v[t[2]] + w[3] * v[t[3]]) \div w[4]

\* Qhull needs at least 4 points, not all on one line, for a 2-D triangulation
interpolation_near(x1, y1, x2, y2, x1grd, y1grd) ==
    IF Len(y1) # Len(x1) \/ Len(x2) # Len(x1) \/ Len(y2) # Len(x1)
    THEN [raised |-> "ValueError"]
    ELSE IF Len(x1) < 4 \/ Delaunay(x1, y1) = {}
    THEN [raised |-> "QhullError"]
    ELSE [raised |-> "",
          x |-> [k \in 1..Len(x1grd) |-> griddata(x1, y1, x2, x1grd[k], y1grd[k])],
          y |-> [k \in 1..Len(x1grd) |-> griddata(x1, y1, y2, x1grd[k], y1grd[k])]]

----------------------------------------------------------------------------
(* pmlib.get_distance_to_nearest_keypoint and pmlib.prepare_first_guess    *)

\* seed[np.uint16(y1), np.uint16(x1)] = True fails outside the image
SeedsInside(x1, y1, shp) ==
    \A k \in 1..Len(x1) : ToUint16(y1[k]) < shp[1] /\ ToUint16(x1[k]) < shp[2]

\* get_distance_to_nearest_keypoint(x1, y1, shape)[row, col], squared: the
\* Euclidean distance transform gives the distance to the nearest seed pixel
get_distance_to_nearest_keypoint(x1, y1, shp, row, col) ==
    LET d2(k) == (row - ToUint16(y1[k])) * (row - ToUint16(y1[k]))
                 + (col - ToUint16(x1[k])) * (col - ToUint16(x1[k]))
        best  == CHOOSE k \in 1..Len(x1) : \A j \in 1..Len(x1) : d2(k) <= d2(j)
    IN d2(best)

\* a[i] for a numpy array of length n: a negative index counts from the end
NormIdx(i, n) == IF i < 0 THEN i + n ELSE i

\* lines 299-304: border from the distance to the nearest keypoint
BorderDistance(x1_dst, y1_dst, x1, y1, shape1, max_border) ==
    LET gpi == [k \in 1..Len(x1_dst) |->
                   /\ ~IsNaN(x1_dst[k]) /\ ~IsNaN(y1_dst[k])
                   /\ x1_dst[k] >= 0 /\ x1_dst[k] < shape1[2]
                   /\ y1_dst[k] >= 0 /\ y1_dst[k] < shape1[1]]
        row(k) == NormIdx(ToInt16(y1_dst[k]), shape1[1])
        col(k) == NormIdx(ToInt16(x1_dst[k]), shape1[2])
    IN IF ~SeedsInside(x1, y1, shape1)
          \/ \E k \in 1..Len(x1_dst) :
                gpi[k] /\ ~(row(k) \in 0..(shape1[1] - 1) /\ col(k) \in 0..(shape1[2] - 1))
       THEN [raised |-> "IndexError"]
       ELSE [raised |-> "",
             border |-> [k \in 1..Len(x1_dst) |->
                 IF gpi[k]
                 THEN get_distance_to_nearest_keypoint(x1, y1, shape1, row(k), col(k))
                 ELSE max_border * max_border]]

\* lines 306-312: border from the error of the polynomial at the keypoints
BorderError(x1_dst, y1_dst, x1, y1, x2, y2) ==
    LET tst == interpolation_poly(x1, y1, x2, y2, x1, y1)
        dif == interpolation_near(x1, y1,
                   [k \in 1..Len(x1) |-> x2[k] - tst.x[k]],
                   [k \in 1..Len(x1) |-> y2[k] - tst.y[k]],
                   x1_dst, y1_dst)
    IN IF tst.raised # "" THEN [raised |-> tst.raised]
       ELSE IF dif.raised # "" THEN [raised |-> dif.raised]
       ELSE [raised |-> "",
             border |-> [k \in 1..Len(x1_dst) |-> Hypot2(dif.x[k], dif.y[k])]]

\* lines 315-317: border is a squared length, min_border and max_border are not
ClampBorder_keepNaN(border, y2fg, min_border, max_border) ==
    [k \in 1..Len(border) |->
        LET b1 == IF ~IsNaN(border[k]) /\ min_border > 0
                     /\ border[k] < min_border * min_border
                  THEN min_border * min_border ELSE border[k]
        IN IF ~IsNaN(b1) /\ (max_border < 0 \/ b1 > max_border * max_border)
           THEN max_border * max_border ELSE b1]

ClampBorder(border, y2fg, min_border, max_border) ==
    [k \in 1..Len(border) |->
        LET b1 == IF ~IsNaN(border[k]) /\ min_border > 0
                     /\ border[k] < min_border * min_border
                  THEN min_border * min_border ELSE border[k]
            b2 == IF ~IsNaN(b1) /\ (max_border < 0 \/ b1 > max_border * max_border)
                  THEN max_border * max_border ELSE b1
        IN IF IsNaN(y2fg[k]) THEN max_border * max_border ELSE b2]

\* lines 320-321: fill the undefined first guess from the polynomial
Backfill(fg, p2) == [k \in 1..Len(fg) |-> IF IsNaN(fg[k]) THEN p2[k] ELSE fg[k]]

\* line 280
UseInterpolation_ge(nkeys, min_fg_pts) == nkeys >= min_fg_pts

UseInterpolation(nkeys, min_fg_pts) == nkeys > min_fg_pts

\* prepare_first_guess with line 317 after the backfill of lines 320-321
prepare_first_guess_lateNaN(x1_dst, y1_dst, n1, x1, y1, n2, x2, y2, img_size, min_fg_pts, min_border, max_border, old_border) ==
    IF UseInterpolation(Len(x1), min_fg_pts)
    THEN Bind(interpolation_poly(x1, y1, x2, y2, x1_dst, y1_dst), LAMBDA p2 :
         IF p2.raised # ""
         THEN [raised |-> p2.raised, called |-> {"interpolation_poly"}]
         ELSE
         Bind(interpolation_near(x1, y1, x2, y2, x1_dst, y1_dst), LAMBDA fg :
         IF fg.raised # ""
         THEN [raised |-> fg.raised,
               called |-> {"interpolation_poly", "interpolation_near"}]
         ELSE
         Bind(IF old_border
              THEN BorderDistance(x1_dst, y1_dst, x1, y1, shape(n1), max_border)
              ELSE BorderError(x1_dst, y1_dst, x1, y1, x2, y2), LAMBDA bd :
         IF bd.raised # ""
         THEN [raised |-> bd.raised,
               called |-> {"interpolation_poly", "interpolation_near"}]
         ELSE [raised |-> "",
               called |-> {"interpolation_poly", "interpolation_near"},
               x2fg   |-> Backfill(fg.x, p2.x),
               y2fg   |-> Backfill(fg.y, p2.y),
               border |-> ClampBorder(bd.border, Backfill(fg.y, p2.y),
                                     min_border, max_border)])))
    ELSE Bind(transform_points(n1, x1_dst, y1_dst, 0), LAMBDA geo :
         Bind(transform_points(n2, geo.x, geo.y, 1), LAMBDA fg :
            [raised |-> "", called |-> {},
             x2fg   |-> fg.x,
             y2fg   |-> fg.y,
             border |-> [k \in 1..Len(x1_dst) |-> (max_border * 2) * (max_border * 2)]]))

\* prepare_first_guess: the first guess and the border (squared) of every
\* query point, or the exception raised
prepare_first_guess(x1_dst, y1_dst, n1, x1, y1, n2, x2, y2, img_size, min_fg_pts, min_border, max_border, old_border) ==
    IF UseInterpolation(Len(x1), min_fg_pts)
    THEN Bind(interpolation_poly(x1, y1, x2, y2, x1_dst, y1_dst), LAMBDA p2 :
         IF p2.raised # ""
         THEN [raised |-> p2.raised, called |-> {"interpolation_poly"}]
         ELSE
         Bind(interpolation_near(x1, y1, x2, y2, x1_dst, y1_dst), LAMBDA fg :
         IF fg.raised # ""
         THEN [raised |-> fg.raised,
               called |-> {"interpolation_poly", "interpolation_near"}]
         ELSE
         Bind(IF old_border
              THEN BorderDistance(x1_dst, y1_dst, x1, y1, shape(n1), max_border)
              ELSE BorderError(x1_dst, y1_dst, x1, y1, x2, y2), LAMBDA bd :
         IF bd.raised # ""
         THEN [raised |-> bd.raised,
               called |-> {"interpolation_poly", "interpolation_near"}]
         ELSE [raised |-> "",
               called |-> {"interpolation_poly", "interpolation_near"},
               x2fg   |-> Backfill(fg.x, p2.x),
               y2fg   |-> Backfill(fg.y, p2.y),
               border |-> ClampBorder(bd.border, fg.y, min_border, max_border)])))
    ELSE Bind(transform_points(n1, x1_dst, y1_dst, 0), LAMBDA geo :
         Bind(transform_points(n2, geo.x, geo.y, 1), LAMBDA fg :
            [raised |-> "", called |-> {},
             x2fg   |-> fg.x,
             y2fg   |-> fg.y,
             border |-> [k \in 1..Len(x1_dst) |-> (max_border * 2) * (max_border * 2)]]))

----------------------------------------------------------------------------
(* Arguments.  The keypoints are the centre and the corners of a square of *)
(* half side hs at (kx, ky) on image 1; the first n of them are passed.    *)
(* Their matches on image 2 are the translation (dx, dy) plus e times a    *)
(* pattern with no affine component.                                       *)

DefaultMinFgPts_3 == 5 - 2

DefaultMinFgPts == 5

DefaultMinBorder == 20

DefaultMaxBorder == 50

LayoutX(kx, hs) == <<kx + hs, kx, kx + 2 * hs, kx + 2 * hs, kx>>

LayoutY(ky, hs) == <<ky + hs, ky, ky, ky + 2 * hs, ky + 2 * hs>>

Pattern(n) == IF n = 5 THEN <<0, 1, -1, 1, -1>>
              ELSE IF n = 4 THEN <<-12, 6, 0, 6>>
              ELSE [k \in 1..n |-> 0]

\* lon1_dst, lat1_dst: a rows x cols lattice of image-1 pixels, as lon/lat
MkGrid(n1, rows, cols, x0, y0, step, nanAt) ==
    [shape |-> <<rows, cols>>,
     lon   |-> [k \in 1..(rows * cols) |->
                   IF k = nanAt THEN NaN
                   ELSE x0 + step * ((k - 1) % cols) + n1.ox],
     lat   |-> [k \in 1..(rows * cols) |->
                   IF k = nanAt THEN NaN
                   ELSE y0 + step * ((k - 1) \div cols) + n1.oy]]

MkInput(n1, n2, grid, kx, ky, hs, n, dx, dy, e, drop, kw, img_size, margin) ==
    [n1 |-> n1, n2 |-> n2, lon1_dst |-> grid.lon, lat1_dst |-> grid.lat,
     dst_shape |-> grid.shape,
     x1 |-> [k \in 1..n |-> LayoutX(kx, hs)[k]],
     y1 |-> [k \in 1..n |-> LayoutY(ky, hs)[k]],
     x2 |-> [k \in 1..(IF n > drop THEN n - drop ELSE 0) |->
                LayoutX(kx, hs)[k] + dx + e * Pattern(n)[k]],
     y2 |-> [k \in 1..(IF n > drop THEN n - drop ELSE 0) |->
                LayoutY(ky, hs)[k] + dy - e * Pattern(n)[k]],
     img_size |-> img_size, margin |-> margin, kwargs |-> kw]

\* keyword arguments of prepare_first_guess
Kwargs(min_fg_pts, min_border, max_border, old_border, angles) ==
    [min_fg_pts |-> min_fg_pts, min_border |-> min_border,
     max_border |-> max_border, old_border |-> old_border, angles |-> angles]

DefaultAngles == <<-3, 0, 3>>

\* a small scene, and one at the scale of the default borders
SmallN1 == [h |-> 16, w |-> 16, ox |-> 0, oy |-> 0, tex |-> 0]

LargeN1 == [h |-> 200, w |-> 200, ox |-> 10, oy |-> 20, tex |-> 0]

InputsFG ==
    {MkInput(SmallN1, [h |-> 16, w |-> 20, ox |-> -g[1], oy |-> -g[2], tex |-> 0],
             MkGrid(SmallN1, 3, 3, q[1], q[2], q[3], nanAt),
             4, 4, 3, n, 5, -3, e, drop,
             Kwargs(mfp, 1, 3, ob, DefaultAngles), 3, 0) :
        g \in {<<5, -3>>, <<2, 1>>},
        q \in {<<-2, -2, 5>>, <<5, 5, 2>>, <<3, 6, 4>>},
        nanAt \in {0, 5}, n \in 0..5, e \in {0, 3, 18}, drop \in {0, 1},
        mfp \in {3, DefaultMinFgPts}, ob \in BOOLEAN}
    \cup
    {MkInput(LargeN1, [h |-> 200, w |-> 200, ox |-> 10 - g[1], oy |-> 20 - g[2], tex |-> 0],
             MkGrid(LargeN1, 3, 3, q[1], q[2], q[3], 0),
             60, 60, 40, n, 5, -3, e, 0,
             Kwargs(mfp, DefaultMinBorder, DefaultMaxBorder, ob, DefaultAngles),
             35, 0) :
        g \in {<<5, -3>>, <<0, 0>>},
        q \in {<<70, 70, 30>>, <<20, 100, 90>>},
        n \in 3..5, e \in {0, 40},
        mfp \in {3, DefaultMinFgPts}, ob \in BOOLEAN}

----------------------------------------------------------------------------
(* The first guess alone: prepare_first_guess applied to the arguments     *)

\* pattern_matching, lines 379-385
FirstGuessOf(i) ==
    LET p1 == transform_points(i.n1, i.lon1_dst, i.lat1_dst, 1)
    IN [x1_dst |-> p1.x, y1_dst |-> p1.y,
        fg |-> prepare_first_guess(p1.x, p1.y, i.n1, i.x1, i.y1, i.n2, i.x2, i.y2,
                   i.img_size, i.kwargs.min_fg_pts, i.kwargs.min_border,
                   i.kwargs.max_border, i.kwargs.old_border)]

NoOut == [exc |-> "", grids |-> <<>>]

NoJob == [left |-> 0, success |-> TRUE, value |-> <<>>, exc |-> "", filled |-> 0]

InitCommon ==
    /\ threads = 0
    /\ loc = None
    /\ shared_args = None
    /\ shared_kwargs = None
    /\ shared_before = None
    /\ workers = <<>>
    /\ taskq = <<>>
    /\ results = <<>>
    /\ ran = {}
    /\ out = NoOut
    /\ job = NoJob
    /\ prev = [called |-> FALSE, threads |-> 0, pc |-> "", out |-> NoOut]

InitFG == inp \in InputsFG /\ pc = "fg" /\ InitCommon

FirstGuess ==
    /\ pc = "fg"
    /\ loc' = FirstGuessOf(inp)
    /\ pc' = "fg_done"
    /\ UNCHANGED <<inp, threads, shared_args, shared_kwargs, shared_before,
                   workers, taskq, results, ran, out, job, prev>>

NextFG == FirstGuess

SpecFG == InitFG /\ [][NextFG]_vars

----------------------------------------------------------------------------
(* Per-point matching: get_rotated_template, rotate_and_match, use_mcc     *)

\* int(a / b) for b > 0: Python's int() truncates towards zero
TruncDiv(a, b) == IF a >= 0 THEN a \div b ELSE -((-a) \div b)

\* np.ceil(a / b) for b > 0
CeilDiv(a, b) == -((-a) \div b)

\* |cos| and |sin| of an angle in degrees, in millionths
Cos6(angle) == CASE Abs(angle) = 0  -> 1000000
                 [] Abs(angle) = 3  -> 998630
                 [] Abs(angle) = 45 -> 707107
                 [] Abs(angle) = 90 -> 0

Sin6(angle) == CASE Abs(angle) = 0  -> 0
                 [] Abs(angle) = 3  -> 52336
                 [] Abs(angle) = 45 -> 707107
                 [] Abs(angle) = 90 -> 1000000

\* a[start:stop] of an axis of length n: <<first index, length>> (numpy
\* counts a negative index from the end and clips to the axis)
PySlice(start, stop, n) ==
    LET norm(v) == IF v < 0 THEN (IF v + n < 0 THEN 0 ELSE v + n)
                   ELSE (IF v > n THEN n ELSE v)
        a == norm(start)
        b == norm(stop)
    IN <<a, IF b > a THEN b - a ELSE 0>>

\* shape of scipy.ndimage.rotate(template, angle) (reshape=True)
RotateShape(rows, cols, angle) ==
    <<(rows * Cos6(angle) + cols * Sin6(angle) + 500000) \div 1000000,
      (cols * Cos6(angle) + rows * Sin6(angle) + 500000) \div 1000000>>

\* shape of get_rotated_template(img, r, c, size, angle)
get_rotated_template(img, r, c, size, angle) ==
    LET cs         == Cos6(angle) + Sin6(angle)
        hwsrot     == CeilDiv(size * cs, 2000000)
        hwsrot2    == CeilDiv(hwsrot * cs, 1000000)
        rotBorder1 == TruncDiv(2 * hwsrot2 - size, 2)
        rotBorder2 == rotBorder1 + size
        rows       == PySlice(r - hwsrot, r + hwsrot + 1, img.h)
        cols       == PySlice(c - hwsrot, c + hwsrot + 1, img.w)
        rot        == RotateShape(rows[2], cols[2], angle)
    IN <<PySlice(rotBorder1, rotBorder2, rot[1])[2],
         PySlice(rotBorder1, rotBorder2, rot[2])[2]>>

(* The content of the two images is not modelled pixel by pixel: the       *)
(* correlation surface of a template (centre x, y on image 1, rotation     *)
(* angle) against a window (first pixel wx, wy of image 2) has the maximum *)
(* MatchMax at the position MatchArg, and the curvature Hessian there.     *)
(* The three are fixed functions of the images and of what is compared.    *)
Texture(img1, img2, x, y, wx, wy, angle) ==
    7 * x + 13 * y + 3 * wx + 5 * wy + 11 * angle + 17 * img1.tex + 29 * img2.tex

MatchMax(img1, img2, x, y, wx, wy, angle) ==
    Texture(img1, img2, x, y, wx, wy, angle) % 4

MatchArg(img1, img2, x, y, wx, wy, angle, rows, cols) ==
    <<(Texture(img1, img2, x, y, wx, wy, angle) \div 4) % rows,
      (Texture(img1, img2, x, y, wx, wy, angle) \div 2) % cols>>

Hessian(img1, img2, x, y, wx, wy, angle) ==
    (Texture(img1, img2, x, y, wx, wy, angle) \div 3) % 5

NaN6 == <<NaN, NaN, NaN, NaN, NaN, NaN>>

\* the loop body with `continue` at line 156: an angle whose template is too
\* small is passed over
MatchStep_skip(img1, img2, x, y, img_size, image, angle, template, st) ==
    IF template[1] < img_size \/ template[2] < img_size
    THEN [st EXCEPT !.k = st.k + 1]
    ELSE IF template[1] = 0 \/ template[2] = 0
            \/ image.rows < template[1] \/ image.cols < template[2]
    THEN [st EXCEPT !.ret = "cv2.error"]
    ELSE [k        |-> st.k + 1,
          ret      |-> "",
          has      |-> TRUE,
          best     |-> IF ~st.has
                          \/ MatchMax(img1, img2, x, y, image.x0, image.y0, angle)
                               > st.best.r
                       THEN [r   |-> MatchMax(img1, img2, x, y, image.x0, image.y0, angle),
                             a   |-> angle,
                             ij  |-> MatchArg(img1, img2, x, y, image.x0, image.y0, angle,
                                              image.rows - template[1] + 1,
                                              image.cols - template[2] + 1),
                             shp |-> <<image.rows - template[1] + 1,
                                       image.cols - template[2] + 1>>]
                       ELSE st.best,
          template |-> template]

\* the loop body with r >= best_r at line 161: a later angle of equal score
\* replaces the best
MatchStep_ge(img1, img2, x, y, img_size, image, angle, template, st) ==
    IF template[1] < img_size \/ template[2] < img_size
    THEN [st EXCEPT !.ret = "nan"]
    ELSE IF template[1] = 0 \/ template[2] = 0
            \/ image.rows < template[1] \/ image.cols < template[2]
    THEN [st EXCEPT !.ret = "cv2.error"]
    ELSE [k        |-> st.k + 1,
          ret      |-> "",
          has      |-> TRUE,
          best     |-> IF ~st.has
                          \/ MatchMax(img1, img2, x, y, image.x0, image.y0, angle)
                               >= st.best.r
                       THEN [r   |-> MatchMax(img1, img2, x, y, image.x0, image.y0, angle),
                             a   |-> angle,
                             ij  |-> MatchArg(img1, img2, x, y, image.x0, image.y0, angle,
                                              image.rows - template[1] + 1,
                                              image.cols - template[2] + 1),
                             shp |-> <<image.rows - template[1] + 1,
                                       image.cols - template[2] + 1>>]
                       ELSE st.best,
          template |-> template]

\* one pass of the loop of rotate_and_match (lines 152-166), given the
\* template of this angle; best is meaningful once st.has: [r, a, ij, shp]
MatchStep(img1, img2, x, y, img_size, image, angle, template, st) ==
    IF template[1] < img_size \/ template[2] < img_size
    THEN [st EXCEPT !.ret = "nan"]
    ELSE IF template[1] = 0 \/ template[2] = 0
            \/ image.rows < template[1] \/ image.cols < template[2]
    THEN [st EXCEPT !.ret = "cv2.error"]
    ELSE [k        |-> st.k + 1,
          ret      |-> "",
          has      |-> TRUE,
          best     |-> IF ~st.has
                          \/ MatchMax(img1, img2, x, y, image.x0, image.y0, angle)
                               > st.best.r
                       THEN [r   |-> MatchMax(img1, img2, x, y, image.x0, image.y0, angle),
                             a   |-> angle,
                             ij  |-> MatchArg(img1, img2, x, y, image.x0, image.y0, angle,
                                              image.rows - template[1] + 1,
                                              image.cols - template[2] + 1),
                             shp |-> <<image.rows - template[1] + 1,
                                       image.cols - template[2] + 1>>]
                       ELSE st.best,
          template |-> template]

\* the loop over angles[st.k..], until it ends or leaves the function
RECURSIVE MatchLoop(_, _, _, _, _, _, _, _, _)
MatchLoop(img1, img2, x, y, img_size, image, alpha0, angles, st) ==
    IF st.k > Len(angles) \/ st.ret # "" THEN st
    ELSE Bind(get_rotated_template(img1, y, x, img_size, angles[st.k] - alpha0),
              LAMBDA template :
         Bind(MatchStep(img1, img2, x, y, img_size, image, angles[st.k], template, st),
              LAMBDA st1 :
              MatchLoop(img1, img2, x, y, img_size, image, alpha0, angles, st1)))

\* the value or the exception rotate_and_match leaves with, from the state
\* of its loop.  dx and dy are in half pixels.
MatchResult(img1, img2, x, y, image, st) ==
    IF st.ret = "nan" THEN [raised |-> "", val |-> NaN6]
    ELSE IF st.ret # "" THEN [raised |-> st.ret]
    ELSE IF ~st.has THEN [raised |-> "UnboundLocalError"]
    ELSE IF st.best.shp[1] < 2 \/ st.best.shp[2] < 2
    THEN [raised |-> "ValueError"]
    ELSE [raised |-> "",
          val |-> <<2 * st.best.ij[2] - (image.cols - st.template[2]),
                    2 * st.best.ij[1] - (image.rows - st.template[1]),
                    st.best.a, st.best.r,
                    Hessian(img1, img2, x, y, image.x0, image.y0, st.best.a),
                    st.best.shp, st.template>>]

\* rotate_and_match: the returned tuple, or the exception raised
rotate_and_match(img1, img2, x, y, img_size, image, alpha0, angles) ==
    Bind(MatchLoop(img1, img2, x, y, img_size, image, alpha0, angles,
                   [k |-> 1, ret |-> "", has |-> FALSE, best |-> None,
                    template |-> None]),
         LAMBDA st : MatchResult(img1, img2, x, y, image, st))

\* int(v - sqrt(b2)) and int(v + sqrt(b2)) for an integer v
TruncSubSqrt(v, b2) == IF v - CeilSqrt(b2) >= 0 THEN v - CeilSqrt(b2) ELSE v - Isqrt(b2)

TruncAddSqrt(v, b2) == IF v + Isqrt(b2) >= 0 THEN v + Isqrt(b2) ELSE v + CeilSqrt(b2)

\* lines 199-204: the window of image 2 searched for the template
SearchWindow(x2p, y2p, border, img2, img_size) ==
    Bind(PySlice(TruncSubSqrt(y2p - TruncDiv(img_size, 2), border),
                 TruncAddSqrt(y2p + TruncDiv(img_size, 2) + 1, border), img2.h),
         LAMBDA rows :
    Bind(PySlice(TruncSubSqrt(x2p - TruncDiv(img_size, 2), border),
                 TruncAddSqrt(x2p + TruncDiv(img_size, 2) + 1, border), img2.w),
         LAMBDA cols :
         [rows |-> rows[2], cols |-> cols[2], y0 |-> rows[1], x0 |-> cols[1]]))

\* line 82: the slice indices of the oversized crop of image 1 around row r,
\* column c, as written (before numpy clips them to the image)
TemplateCrop(r, c, size, angle) ==
    Bind(CeilDiv(size * (Cos6(angle) + Sin6(angle)), 2000000), LAMBDA hwsrot :
         [r0 |-> r - hwsrot, r1 |-> r + hwsrot + 1,
          c0 |-> c - hwsrot, c1 |-> c + hwsrot + 1])

\* lines 202-203: the slice indices of the window of image 2, as written
WindowRange(x2p, y2p, border, img_size) ==
    [r0 |-> TruncSubSqrt(y2p - TruncDiv(img_size, 2), border),
     r1 |-> TruncAddSqrt(y2p + TruncDiv(img_size, 2) + 1, border),
     c0 |-> TruncSubSqrt(x2p - TruncDiv(img_size, 2), border),
     c1 |-> TruncAddSqrt(x2p + TruncDiv(img_size, 2) + 1, border)]

\* use_mcc: x2, y2 (in half pixels), a, r, h; or the exception raised.
\* Line 207 unpacks seven values from what rotate_and_match returned.
use_mcc(x1p, y1p, x2fg, y2fg, border, img1, img2, img_size, alpha0, kwargs) ==
    IF IsNaN(x2fg) \/ IsNaN(y2fg) \/ IsNaN(border) THEN [raised |-> "ValueError"]
    ELSE Bind(rotate_and_match(img1, img2, x1p, y1p, img_size,
                               SearchWindow(x2fg, y2fg, border, img2, img_size),
                               alpha0, kwargs.angles),
              LAMBDA m :
              IF m.raised # "" THEN m
              ELSE IF Len(m.val) # 7 THEN [raised |-> "ValueError"]
              ELSE [raised |-> "",
                    val |-> <<2 * x2fg + m.val[1], 2 * y2fg + m.val[2],
                              m.val[3], m.val[4], m.val[5]>>])

\* use_mcc_mp(i) in a process whose globals are sargs, skwargs
use_mcc_mp(i, sargs, skwargs) ==
    use_mcc(sargs[1][i + 1], sargs[2][i + 1], sargs[3][i + 1], sargs[4][i + 1],
            sargs[5][i + 1], sargs[6], sargs[7], sargs[8], sargs[9], skwargs)

----------------------------------------------------------------------------
(* pattern_matching                                                        *)

MaxThreads == 2

\* n[1]: the band of a Nansat object
Band(n) == [h |-> n.h, w |-> n.w, tex |-> n.tex]

\* np.degrees(np.arctan2(b, a)) of a vector along an image axis
Atan2Deg(b, a) == IF b = 0 THEN (IF a >= 0 THEN 0 ELSE 180)
                  ELSE IF b > 0 THEN 90 ELSE -90

\* get_initial_rotation: n2.get_corners() lists the corners (col, row) =
\* (0, 0), (0, rows), (cols, 0), (cols, rows) of image 2
get_initial_rotation(n1, n2) ==
    LET geo == transform_points(n2, <<0, 0>>, <<0, n2.h>>, 0)
        c   == transform_points(n1, geo.x, geo.y, 1)
    IN Atan2Deg(c.x[2] - c.x[1], c.y[2] - c.y[1])

\* v > sqrt(b2) for an integer v
GtSqrt(v, b2) == v > 0 /\ v * v > b2

\* lines 388-397 for one point (hws = img_size / 2 and hws_hypot are not
\* integers: every comparison is multiplied out).  The _noUpper form forgets
\* the two upper limits on image 2.
GoodPoint_noUpper(x1, y1, x2fg, y2fg, border, img_size, margin, shape1, shape2) ==
    /\ ~IsNaN(x1) /\ ~IsNaN(y1) /\ ~IsNaN(x2fg) /\ ~IsNaN(y2fg) /\ ~IsNaN(border)
    /\ GtSqrt(2 * x2fg - img_size - 2 * margin, 4 * border)
    /\ GtSqrt(2 * y2fg - img_size - 2 * margin, 4 * border)
    /\ GtSqrt(x1 - margin, (img_size * img_size) \div 2)
    /\ GtSqrt(y1 - margin, (img_size * img_size) \div 2)
    /\ GtSqrt(shape1[2] - x1 - margin, (img_size * img_size) \div 2)
    /\ GtSqrt(shape1[1] - y1 - margin, (img_size * img_size) \div 2)

GoodPoint(x1, y1, x2fg, y2fg, border, img_size, margin, shape1, shape2) ==
    /\ ~IsNaN(x1) /\ ~IsNaN(y1) /\ ~IsNaN(x2fg) /\ ~IsNaN(y2fg) /\ ~IsNaN(border)
    /\ GtSqrt(2 * x2fg - img_size - 2 * margin, 4 * border)
    /\ GtSqrt(2 * y2fg - img_size - 2 * margin, 4 * border)
    /\ GtSqrt(2 * shape2[2] - 2 * x2fg - img_size - 2 * margin, 4 * border)
    /\ GtSqrt(2 * shape2[1] - 2 * y2fg - img_size - 2 * margin, 4 * border)
    /\ GtSqrt(x1 - margin, (img_size * img_size) \div 2)
    /\ GtSqrt(y1 - margin, (img_size * img_size) \div 2)
    /\ GtSqrt(shape1[2] - x1 - margin, (img_size * img_size) \div 2)
    /\ GtSqrt(shape1[1] - y1 - margin, (img_size * img_size) \div 2)

\* lines 388-397: the mask of the valid points
ValidMask(i, x1_dst, y1_dst, fg) ==
    [k \in 1..Len(x1_dst) |->
        GoodPoint(x1_dst[k], y1_dst[k], fg.x2fg[k], fg.y2fg[k], fg.border[k],
                  i.img_size, i.margin, shape(i.n1), shape(i.n2))]

\* lines 399-416: alpha0 and the argument tuple of _init_pool
InitArgs(i, x1_dst, y1_dst, fg, gpi) ==
    [x1_dst |-> x1_dst, y1_dst |-> y1_dst, fg |-> fg, gpi |-> gpi,
     alpha0 |-> get_initial_rotation(i.n1, i.n2),
     args |-> <<Compress(x1_dst, gpi), Compress(y1_dst, gpi),
                Compress(fg.x2fg, gpi), Compress(fg.y2fg, gpi),
                Compress(fg.border, gpi), Band(i.n1), Band(i.n2),
                i.img_size, get_initial_rotation(i.n1, i.n2), i.kwargs>>]

\* lines 376-416: the local variables of pattern_matching before the matching
Locals(i) ==
    Bind(transform_points(i.n1, i.lon1_dst, i.lat1_dst, 1), LAMBDA p1 :
    Bind(prepare_first_guess(p1.x, p1.y, i.n1, i.x1, i.y1, i.n2, i.x2, i.y2,
             i.img_size, i.kwargs.min_fg_pts, i.kwargs.min_border,
             i.kwargs.max_border, i.kwargs.old_border), LAMBDA fg :
       IF fg.raised # ""
       THEN [x1_dst |-> p1.x, y1_dst |-> p1.y, fg |-> fg, gpi |-> <<>>,
             alpha0 |-> 0, args |-> <<>>]
       ELSE Bind(ValidMask(i, p1.x, p1.y, fg), LAMBDA gpi :
                 InitArgs(i, p1.x, p1.y, fg, gpi))))

\* len(gpi[gpi]): the number of matching tasks of the call
NTasks(l) == Len(l.args[1])

\* Pool.map splits range(n) into chunks of ceil(n / (4 * processes)) tasks
ChunkSize(n, t) == IF n = 0 THEN 0 ELSE CeilDiv(n, 4 * t)

NChunks(n, t) == IF n = 0 THEN 0 ELSE CeilDiv(n, ChunkSize(n, t))

\* the first task index (from 0) of chunk c (from 1); the _reversed form
\* hands the chunks out from the far end of the range
ChunkFirst_reversed(c, n, t) == (NChunks(n, t) - c) * ChunkSize(n, t)

ChunkFirst(c, n, t) == (c - 1) * ChunkSize(n, t)

ChunkLen(c, n, t) ==
    IF c * ChunkSize(n, t) <= n THEN ChunkSize(n, t) ELSE n - ChunkFirst(c, n, t)

IdleWorker(sargs, skwargs) ==
    [sargs |-> sargs, skwargs |-> skwargs, chunk |-> 0, pos |-> 0, buf |-> <<>>,
     failed |-> ""]

\* shared_args and shared_kwargs of the calling process after lines 407-416:
\* _init_pool runs in the caller when threads == 0 and in the pool workers
\* otherwise (the _inParent form runs it in the caller in both modes)
CallerGlobals_inParent(t, args, before) == <<SubSeq(args, 1, 9), args[10]>>

CallerGlobals(t, args, before) ==
    IF t = 0 THEN <<SubSeq(args, 1, 9), args[10]>> ELSE before

\* pattern_matching is called: lines 376-399, then line 409 (threads == 0)
\* or the Pool of line 414, whose workers each run _init_pool
Call(t) ==
    /\ pc \in {"idle", "returned", "raised"}
    /\ \E l \in {Locals(inp)} :
          /\ loc' = l
          /\ threads' = t
          /\ prev' = IF pc = "idle" \/ threads # 0 THEN prev
                     ELSE [called |-> TRUE, threads |-> threads, pc |-> pc, out |-> out]
          /\ shared_before' = <<shared_args, shared_kwargs>>
          /\ ran' = {}
          /\ results' = <<>>
          /\ taskq' = IF l.fg.raised = "" /\ t > 0
                      THEN [c \in 1..NChunks(NTasks(l), t) |-> c] ELSE <<>>
          /\ job' = IF l.fg.raised = "" /\ t > 0
                    THEN [left |-> NChunks(NTasks(l), t), success |-> TRUE,
                          value |-> [k \in 1..NTasks(l) |-> None], exc |-> "",
                          filled |-> 0]
                    ELSE NoJob
          /\ workers' = IF l.fg.raised = "" /\ t > 0
                        THEN [w \in 1..t |-> IdleWorker(SubSeq(l.args, 1, 9), l.args[10])]
                        ELSE <<>>
          /\ IF l.fg.raised # ""
             THEN /\ pc' = "raised"
                  /\ out' = [exc |-> l.fg.raised, grids |-> <<>>]
                  /\ UNCHANGED <<shared_args, shared_kwargs>>
             ELSE IF t < 0
             THEN /\ pc' = "raised"
                  /\ out' = [exc |-> "ValueError", grids |-> <<>>]
                  /\ UNCHANGED <<shared_args, shared_kwargs>>
             ELSE /\ shared_args' =
                        CallerGlobals(t, l.args, <<shared_args, shared_kwargs>>)[1]
                  /\ shared_kwargs' =
                        CallerGlobals(t, l.args, <<shared_args, shared_kwargs>>)[2]
                  /\ pc' = IF t > 0 THEN "map"
                           ELSE IF NTasks(l) = 0 THEN "gathered" ELSE "seq"
                  /\ out' = NoOut
    /\ UNCHANGED inp

\* line 411: the next element of [use_mcc_mp(i) for i in range(...)]
SeqStep ==
    /\ pc = "seq"
    /\ \E r \in {use_mcc_mp(Len(results), shared_args, shared_kwargs)} :
          /\ ran' = ran \cup {Len(results)}
          /\ IF r.raised # ""
             THEN /\ pc' = "raised"
                  /\ out' = [exc |-> r.raised, grids |-> <<>>]
                  /\ UNCHANGED results
             ELSE /\ results' = Append(results, r.val)
                  /\ pc' = IF Len(results) + 1 = NTasks(loc) THEN "gathered" ELSE "seq"
                  /\ UNCHANGED out
    /\ UNCHANGED <<inp, threads, loc, shared_args, shared_kwargs, shared_before,
                   workers, taskq, job, prev>>

\* a pool worker takes the next chunk from the task queue
WorkerGet(w) ==
    /\ pc = "map"
    /\ workers[w].chunk = 0
    /\ taskq # <<>>
    /\ workers' = [workers EXCEPT ![w].chunk = Head(taskq), ![w].pos = 0,
                                  ![w].buf = <<>>, ![w].failed = ""]
    /\ taskq' = Tail(taskq)
    /\ UNCHANGED <<inp, threads, pc, loc, shared_args, shared_kwargs, shared_before,
                   results, ran, out, job, prev>>

\* a pool worker runs use_mcc_mp on the next task of its chunk
WorkerRun(w) ==
    /\ pc = "map"
    /\ workers[w].chunk # 0
    /\ workers[w].failed = ""
    /\ workers[w].pos < ChunkLen(workers[w].chunk, NTasks(loc), threads)
    /\ \E i \in {ChunkFirst(workers[w].chunk, NTasks(loc), threads) + workers[w].pos} :
       \E r \in {use_mcc_mp(i, workers[w].sargs, workers[w].skwargs)} :
          /\ ran' = ran \cup {i}
          /\ workers' = IF r.raised # ""
                        THEN [workers EXCEPT ![w].failed = r.raised]
                        ELSE [workers EXCEPT ![w].pos = @ + 1,
                                             ![w].buf = Append(@, r.val)]
    /\ UNCHANGED <<inp, threads, pc, loc, shared_args, shared_kwargs, shared_before,
                   taskq, results, out, job, prev>>

\* the place of a chunk's results in the gathered list: by chunk number
\* (MapResult._set), or, for comparison, by order of arrival
Gather_byArrival(value, c, cs, buf, filled) ==
    [k \in 1..Len(value) |->
        IF k > filled /\ k <= filled + Len(buf) THEN buf[k - filled] ELSE value[k]]

Gather(value, c, cs, buf, filled) ==
    [k \in 1..Len(value) |->
        IF k > (c - 1) * cs /\ k <= (c - 1) * cs + Len(buf)
        THEN buf[k - (c - 1) * cs] ELSE value[k]]

\* a worker hands its finished (or failed) chunk back; the result is stored
WorkerPut(w) ==
    /\ pc = "map"
    /\ workers[w].chunk # 0
    /\ \/ workers[w].failed # ""
       \/ workers[w].pos = ChunkLen(workers[w].chunk, NTasks(loc), threads)
    /\ job' = IF workers[w].failed = "" /\ job.success
              THEN [job EXCEPT !.left = @ - 1,
                               !.value = Gather(job.value, workers[w].chunk,
                                                ChunkSize(NTasks(loc), threads),
                                                workers[w].buf, job.filled),
                               !.filled = @ + Len(workers[w].buf)]
              ELSE IF workers[w].failed # "" /\ job.success
              THEN [job EXCEPT !.left = @ - 1, !.success = FALSE,
                               !.exc = workers[w].failed]
              ELSE [job EXCEPT !.left = @ - 1]
    /\ workers' = [workers EXCEPT ![w].chunk = 0, ![w].pos = 0, ![w].buf = <<>>,
                                  ![w].failed = ""]
    /\ UNCHANGED <<inp, threads, pc, loc, shared_args, shared_kwargs, shared_before,
                   taskq, results, ran, out, prev>>

\* lines 417-421: p.map returns (or raises) once every chunk is back; the
\* pool is closed, terminated and joined
MapReturn ==
    /\ pc = "map"
    /\ job.left = 0
    /\ IF job.success
       THEN /\ results' = job.value
            /\ pc' = "gathered"
            /\ UNCHANGED out
       ELSE /\ pc' = "raised"
            /\ out' = [exc |-> job.exc, grids |-> <<>>]
            /\ UNCHANGED results
    /\ workers' = <<>>
    /\ UNCHANGED <<inp, threads, loc, shared_args, shared_kwargs, shared_before,
                   taskq, ran, job, prev>>

\* lib.get_drift_vectors: u, v, lon2, lat2 in half pixels / half degrees.
\* Domain(nsr, '-te -10 -10 10 10 -tr 1 1') maps lon, lat to lon + 10, 10 - lat
get_drift_vectors(n1, x1, y1, n2, x2h, y2h) ==
    [u    |-> [k \in 1..Len(x1) |->
                  Sub(Add(Add(x2h[k], 2 * n2.ox), 20), Add(Mul(2, Add(x1[k], n1.ox)), 20))],
     v    |-> [k \in 1..Len(x1) |->
                  Sub(Sub(20, Mul(2, Add(y1[k], n1.oy))), Sub(20, Add(y2h[k], 2 * n2.oy)))],
     lon2 |-> [k \in 1..Len(x1) |-> Add(x2h[k], 2 * n2.ox)],
     lat2 |-> [k \in 1..Len(x1) |-> Add(y2h[k], 2 * n2.oy)]]

\* np.zeros(shape) + np.nan
NaNGrid(shp) == [shape |-> shp, data |-> [k \in 1..(shp[1] * shp[2]) |-> NaN]]

\* lib._fill_gpi, and a form that leaves zeros in the cells it does not fill
_fill_gpi_zeros(shp, gpi, data) ==
    [shape |-> shp,
     data  |-> [k \in 1..(shp[1] * shp[2]) |->
                   IF gpi[k] THEN data[CountTrue(gpi, k)] ELSE 0]]

_fill_gpi(shp, gpi, data) ==
    [shape |-> shp,
     data  |-> [k \in 1..(shp[1] * shp[2]) |->
                   IF gpi[k] THEN data[CountTrue(gpi, k)] ELSE NaN]]

Column(res, c) == [k \in 1..Len(res) |-> res[k][c]]

\* lines 423-452: the seven grids u, v, a, r, h, lon2_dst, lat2_dst
Assemble ==
    /\ pc = "gathered"
    /\ pc' = "returned"
    /\ out' =
         IF Len(results) = 0
         THEN [exc |-> "", grids |-> [g \in 1..7 |-> NaNGrid(inp.dst_shape)]]
         ELSE LET d == get_drift_vectors(inp.n1, Compress(loc.x1_dst, loc.gpi),
                                         Compress(loc.y1_dst, loc.gpi), inp.n2,
                                         Column(results, 1), Column(results, 2))
              IN [exc |-> "",
                  grids |-> <<_fill_gpi(inp.dst_shape, loc.gpi, d.u),
                              _fill_gpi(inp.dst_shape, loc.gpi, d.v),
                              _fill_gpi(inp.dst_shape, loc.gpi, Column(results, 3)),
                              _fill_gpi(inp.dst_shape, loc.gpi, Column(results, 4)),
                              _fill_gpi(inp.dst_shape, loc.gpi, Column(results, 5)),
                              _fill_gpi(inp.dst_shape, loc.gpi, d.lon2),
                              _fill_gpi(inp.dst_shape, loc.gpi, d.lat2)>>]
    /\ UNCHANGED <<inp, threads, loc, shared_args, shared_kwargs, shared_before,
                   workers, taskq, results, ran, job, prev>>

SmallN2(g, tex) == [h |-> 16, w |-> 20, ox |-> -g[1], oy |-> -g[2], tex |-> tex]

\* the ways the keypoints are passed: <<n, drop, min_fg_pts, e, old_border>>
KeyConfigs ==
    {<<2, 0, DefaultMinFgPts, 0, TRUE>>,    \* too few keypoints
     <<2, 1, DefaultMinFgPts, 0, TRUE>>,    \* too few, x2 and y2 one shorter
     <<5, 0, 3, 0, TRUE>>,                  \* interpolation, distance policy
     <<5, 0, 3, 3, FALSE>>,                 \* interpolation, error policy
     <<5, 1, 3, 0, TRUE>>}                  \* interpolation, x2 and y2 one shorter

\* the destination grids <<x0, y0, step>> (2 x 2 points) and the place of a
\* NaN point in them (0: none)
Grids == {<<6, 6, 3>>, <<1, 7, 7>>, <<8, 7, 7>>}

PMInput(q, nanAt, c, img_size, margin) ==
    MkInput(SmallN1, SmallN2(<<2, 1>>, 1), MkGrid(SmallN1, 2, 2, q[1], q[2], q[3], nanAt),
            4, 4, 3, c[1], 2, 1, c[4], c[2],
            Kwargs(c[3], 1, 2, c[5], DefaultAngles), img_size, margin)

InputsPM ==
    {PMInput(q, nanAt, c, img_size, margin) :
        q \in Grids, nanAt \in {0, 2},
        c \in {<<2, 0, DefaultMinFgPts, 0, TRUE>>, <<5, 0, 3, 0, TRUE>>},
        img_size \in {3, 4}, margin \in {-2, 1}}
    \cup
    {PMInput(q, 2, c, img_size, 1) :
        q \in {<<6, 6, 3>>, <<1, 7, 7>>}, c \in KeyConfigs, img_size \in {0, 3}}
    \cup
    {PMInput(<<6, 6, 7>>, 0, <<5, 0, 3, 0, TRUE>>, img_size, 0) : img_size \in {3, 4}}

Init == inp \in InputsPM /\ pc = "idle" /\ InitCommon

Next ==
    \/ \E t \in -1..MaxThreads : Call(t)
    \/ SeqStep
    \/ \E w \in DOMAIN workers : WorkerGet(w)
    \/ \E w \in DOMAIN workers : WorkerRun(w)
    \/ \E w \in DOMAIN workers : WorkerPut(w)
    \/ MapReturn
    \/ Assemble

Spec == Init /\ [][Next]_vars

\* The list comprehension of line 411 goes on to its next element, a pool
\* worker that can take, run or hand back a task does so, and p.map and
\* the lines after it are executed once their turn has come.
FairSpec ==
    /\ Spec
    /\ WF_vars(SeqStep)
    /\ WF_vars(\E w \in DOMAIN workers : WorkerGet(w))
    /\ WF_vars(\E w \in DOMAIN workers : WorkerRun(w))
    /\ WF_vars(\E w \in DOMAIN workers : WorkerPut(w))
    /\ WF_vars(MapReturn)
    /\ WF_vars(Assemble)

----------------------------------------------------------------------------
(* rotate_and_match alone, applied to a point, a window and a list of angles *)

\* the candidate angles tried, in the order of the list
AngleLists ==
    {DefaultAngles, <<3, 0, -3>>, <<0>>, <<>>, <<0, 45>>, <<45, 0>>,
     <<-3, 45, 0>>, <<45, -3, 0>>, <<90, -90, 3>>, <<3, -45>>}

\* the window of image 2 handed over by use_mcc: [rows, cols, y0, x0]
InputsRM ==
    {[img1 |-> [SmallN1 EXCEPT !.tex = t], img2 |-> SmallN2(<<2, 1>>, 1),
      x |-> x, y |-> y, img_size |-> img_size,
      image |-> [rows |-> 9, cols |-> 9, y0 |-> 1, x0 |-> x0],
      alpha0 |-> 0, angles |-> angles] :
        t \in {0, 1}, x \in {3, 8, 12, 13, 14, 15}, y \in {8, 13}, img_size \in {3, 4},
        x0 \in {2, 3}, angles \in AngleLists}

InitRM == inp \in InputsRM /\ pc = "rm" /\ InitCommon

Match ==
    /\ pc = "rm"
    /\ loc' = rotate_and_match(inp.img1, inp.img2, inp.x, inp.y, inp.img_size,
                               inp.image, inp.alpha0, inp.angles)
    /\ pc' = "rm_done"
    /\ UNCHANGED <<inp, threads, shared_args, shared_kwargs, shared_before,
                   workers, taskq, results, ran, out, job, prev>>

NextRM == Match

SpecRM == InitRM /\ [][NextRM]_vars

----------------------------------------------------------------------------
(* The distance policy alone (lines 297-304), also on a scene wider than   *)
(* the range of np.int16                                                   *)

WideN1 == [h |-> 100, w |-> 40000, ox |-> 0, oy |-> 0, tex |-> 0]

\* keypoints (the first three of the layout) and two query points
InputsBD ==
    {[n1 |-> SmallN1,
      x1 |-> SubSeq(LayoutX(kx, 3), 1, 3), y1 |-> SubSeq(LayoutY(4, 3), 1, 3),
      x1_dst |-> <<qa, qb>>, y1_dst |-> <<qy, 5>>, max_border |-> 3] :
        kx \in {4, 8}, qa \in {-1, 0, 7, 15, 16}, qb \in {2, 12, NaN}, qy \in {0, 9, 16}}
    \cup
    {[n1 |-> WideN1,
      x1 |-> SubSeq(LayoutX(kx, 40), 1, 3), y1 |-> SubSeq(LayoutY(10, 40), 1, 3),
      x1_dst |-> <<qa, qb>>, y1_dst |-> <<qy, 50>>, max_border |-> DefaultMaxBorder] :
        kx \in {100, 32900, 39900},
        qa \in {-1, 60, 32767, 32768, 33010, 39999, 40000},
        qb \in {150, 20000, 39950}, qy \in {0, 99, 100}}

InitBD == inp \in InputsBD /\ pc = "bd" /\ InitCommon

Distance ==
    /\ pc = "bd"
    /\ loc' = BorderDistance(inp.x1_dst, inp.y1_dst, inp.x1, inp.y1, shape(inp.n1),
                             inp.max_border)
    /\ pc' = "bd_done"
    /\ UNCHANGED <<inp, threads, shared_args, shared_kwargs, shared_before,
                   workers, taskq, results, ran, out, job, prev>>

NextBD == Distance

SpecBD == InitBD /\ [][NextBD]_vars

----------------------------------------------------------------------------
(* Claims about prepare_first_guess (checked under SpecFG)                 *)

FgDone == pc = "fg_done" /\ loc.fg.raised = ""

Points == 1..Len(inp.lon1_dst)

\* C6: on the interpolation path (len(x1) > min_fg_pts) every returned
\* border b is a number with min_border <= b <= max_border, under the
\* distance policy and under the error policy, also for query points
\* outside the convex hull of the keypoints or outside image 1.
C6_BorderWithinLimits ==
    (FgDone /\ Len(inp.x1) > inp.kwargs.min_fg_pts) =>
        \A k \in Points :
            /\ ~IsNaN(loc.fg.border[k])
            /\ inp.kwargs.min_border * inp.kwargs.min_border <= loc.fg.border[k]
            /\ loc.fg.border[k] <= inp.kwargs.max_border * inp.kwargs.max_border

\* the error policy ran with one query point outside the convex hull, and
\* one border strictly between the limits
C6_Witness ==
    /\ FgDone /\ Len(inp.x1) > inp.kwargs.min_fg_pts /\ ~inp.kwargs.old_border
    /\ \E k \in Points :
          /\ ~IsNaN(loc.x1_dst[k])
          /\ IsNaN(griddata(inp.x1, inp.y1, inp.y2, loc.x1_dst[k], loc.y1_dst[k]))
          /\ loc.fg.border[k] = inp.kwargs.max_border * inp.kwargs.max_border
    /\ \E k \in Points :
          /\ inp.kwargs.min_border * inp.kwargs.min_border < loc.fg.border[k]
          /\ loc.fg.border[k] < inp.kwargs.max_border * inp.kwargs.max_border

\* C7: with len(x1) <= min_fg_pts (equality included) the border is
\* 2 * max_border at every query point, the first guess is the transform
\* image-1 pixel -> lon/lat -> image-2 pixel of the query point, and neither
\* interpolation routine is called.
C7_Fallback ==
    (pc = "fg_done" /\ Len(inp.x1) <= inp.kwargs.min_fg_pts) =>
        /\ loc.fg.raised = ""
        /\ loc.fg.called = {}
        /\ \A k \in Points :
              /\ loc.fg.border[k] = 4 * inp.kwargs.max_border * inp.kwargs.max_border
              /\ loc.fg.x2fg[k] = Sub(Add(loc.x1_dst[k], inp.n1.ox), inp.n2.ox)
              /\ loc.fg.y2fg[k] = Sub(Add(loc.y1_dst[k], inp.n1.oy), inp.n2.oy)

\* exactly min_fg_pts keypoints, whose own translation differs from the
\* geographic one, and the fallback was taken
C7_Witness ==
    /\ FgDone /\ Len(inp.x1) = inp.kwargs.min_fg_pts /\ Len(inp.x2) = Len(inp.x1)
    /\ inp.n1.ox - inp.n2.ox # inp.x2[1] - inp.x1[1]
    /\ \E k \in Points : loc.fg.x2fg[k] = loc.x1_dst[k] + inp.n1.ox - inp.n2.ox
    /\ \A k \in Points :
          loc.fg.border[k] = 4 * inp.kwargs.max_border * inp.kwargs.max_border

\* the scenario of C8: four keypoints matched by the translation (5, -3), a
\* 3 x 3 query grid, the default options and the distance policy
C8_Scenario ==
    /\ pc = "fg_done"
    /\ Len(inp.x1) = 4 /\ Len(inp.x2) = 4 /\ Len(inp.y1) = 4 /\ Len(inp.y2) = 4
    /\ \A k \in 1..4 : inp.x2[k] = inp.x1[k] + 5 /\ inp.y2[k] = inp.y1[k] - 3
    /\ inp.dst_shape = <<3, 3>>
    /\ \A k \in Points : ~IsNaN(loc.x1_dst[k])
    /\ inp.kwargs.min_fg_pts = DefaultMinFgPts
    /\ inp.kwargs.min_border = DefaultMinBorder
    /\ inp.kwargs.max_border = DefaultMaxBorder
    /\ inp.kwargs.old_border

\* C8 as stated: in that scenario x2fg - x1 = 5, y2fg - y1 = -3 and border =
\* min_border at every query point.
C8_AsStated ==
    C8_Scenario =>
        /\ loc.fg.raised = ""
        /\ \A k \in Points :
              /\ loc.fg.x2fg[k] - loc.x1_dst[k] = 5
              /\ loc.fg.y2fg[k] - loc.y1_dst[k] = -3
              /\ loc.fg.border[k] = DefaultMinBorder * DefaultMinBorder

\* C8, amended: in that scenario the four keypoints do not exceed the default
\* min_fg_pts = 5, so the fallback is taken: border = 2 * max_border = 100 at
\* every query point and the first guess is the geographic transform of the
\* query point, whatever translation the keypoints encode.
C8_DefaultsTakeFallback ==
    C8_Scenario =>
        /\ loc.fg.raised = ""
        /\ \A k \in Points :
              /\ loc.fg.border[k] = 100 * 100
              /\ loc.fg.x2fg[k] - loc.x1_dst[k] = inp.n1.ox - inp.n2.ox
              /\ loc.fg.y2fg[k] - loc.y1_dst[k] = inp.n1.oy - inp.n2.oy

\* the scenario, with a geographic transform that is not the translation
C8_Witness ==
    /\ C8_Scenario /\ loc.fg.raised = ""
    /\ inp.n1.ox - inp.n2.ox # 5
    /\ \A k \in Points : loc.fg.border[k] = 100 * 100

----------------------------------------------------------------------------
(* Claims about pattern_matching, checked under Spec                       *)

\* the flat cells of the destination grid
Cells == 1..(inp.dst_shape[1] * inp.dst_shape[2])

\* the first guess was prepared: the locals of lines 376-399 exist
Prepared == pc # "idle" /\ loc.fg.raised = ""

\* the cell of the destination grid whose point is task i (from 0)
CellOfTask(i) == CHOOSE c \in Cells : loc.gpi[c] /\ CountTrue(loc.gpi, c) = i + 1

\* what rotate_and_match returns for task i of the current call
TaskMatch(i) ==
    rotate_and_match(loc.args[6], loc.args[7], loc.args[1][i + 1], loc.args[2][i + 1],
                     loc.args[8],
                     SearchWindow(loc.args[3][i + 1], loc.args[4][i + 1],
                                  loc.args[5][i + 1], loc.args[7], loc.args[8]),
                     loc.args[9], loc.args[10].angles)

\* rotate_and_match could not cut a template of edge img_size for task i
TemplateFails(i) == TaskMatch(i).raised = "" /\ TaskMatch(i).val = NaN6

\* C1 (as stated): a matching task whose template cannot be cut at the
\* requested edge length never makes pattern_matching raise; the call goes on
\* to the other points.
C1_TemplateFailureNeverRaises ==
    (pc # "idle" /\ \E i \in ran : TemplateFails(i)) => pc # "raised"

\* C2: whenever pattern_matching returns, each of the seven grids has the
\* shape of lon1_dst, and every cell the mask gpi leaves out is NaN in all
\* seven grids.
C2_ShapeAndNaN ==
    pc = "returned" =>
        \A g \in 1..7 :
            /\ out.grids[g].shape = inp.dst_shape
            /\ DOMAIN out.grids[g].data = Cells
            /\ \A c \in Cells : ~loc.gpi[c] => out.grids[g].data[c] = NaN

C2_Witness ==
    /\ pc = "returned"
    /\ \E c \in Cells : loc.gpi[c]
    /\ \E c \in Cells : ~loc.gpi[c]

\* v < sqrt(b2) for an integer v
LtSqrt(v, b2) == v < 0 \/ v * v < b2

\* the search window of cell c on image 2 (first guess padded by border +
\* img_size / 2 + margin) or its template window on image 1 (padded by the
\* half diagonal img_size / sqrt(2) + margin) extends outside the image, or
\* the first guess or the border is undefined
WindowOutside(c) ==
    \/ IsNaN(loc.x1_dst[c]) \/ IsNaN(loc.y1_dst[c])
    \/ IsNaN(loc.fg.x2fg[c]) \/ IsNaN(loc.fg.y2fg[c]) \/ IsNaN(loc.fg.border[c])
    \/ LtSqrt(2 * loc.fg.x2fg[c] - inp.img_size - 2 * inp.margin, 4 * loc.fg.border[c])
    \/ LtSqrt(2 * loc.fg.y2fg[c] - inp.img_size - 2 * inp.margin, 4 * loc.fg.border[c])
    \/ LtSqrt(2 * inp.n2.w - 2 * loc.fg.x2fg[c] - inp.img_size - 2 * inp.margin,
              4 * loc.fg.border[c])
    \/ LtSqrt(2 * inp.n2.h - 2 * loc.fg.y2fg[c] - inp.img_size - 2 * inp.margin,
              4 * loc.fg.border[c])
    \/ LtSqrt(2 * (loc.x1_dst[c] - inp.margin), 2 * inp.img_size * inp.img_size)
    \/ LtSqrt(2 * (loc.y1_dst[c] - inp.margin), 2 * inp.img_size * inp.img_size)
    \/ LtSqrt(2 * (inp.n1.w - loc.x1_dst[c] - inp.margin),
              2 * inp.img_size * inp.img_size)
    \/ LtSqrt(2 * (inp.n1.h - loc.y1_dst[c] - inp.margin),
              2 * inp.img_size * inp.img_size)

\* C3: a point whose search window or template window extends outside its
\* image, or whose first guess or border is NaN, is not in the mask, no task
\* run by use_mcc_mp (in either mode) is the task of such a point, and its
\* cell is NaN in u, v, a, r and h of the returned grids.
C3_OutsideNeverMatched ==
    Prepared =>
        /\ \A c \in Cells : WindowOutside(c) => ~loc.gpi[c]
        /\ \A i \in ran : ~WindowOutside(CellOfTask(i))
        /\ pc = "returned" =>
               \A c \in Cells : WindowOutside(c) =>
                   \A g \in 1..5 : out.grids[g].data[c] = NaN

C3_Witness ==
    /\ pc = "returned"
    /\ threads > 0
    /\ ran # {}
    /\ \E c \in Cells : WindowOutside(c) /\ ~IsNaN(loc.fg.x2fg[c])
    /\ \E c \in Cells : IsNaN(loc.fg.x2fg[c])

\* C4: a call with threads = N > 0 that returns, made with the inputs of an
\* earlier call with threads = 0 that returned, returns the same seven grids,
\* whatever N is and in whatever order the workers finished.
C4_SameGridsInBothModes ==
    (pc = "returned" /\ threads > 0 /\ prev.called /\ prev.pc = "returned") =>
        out.grids = prev.out.grids

C4_Witness ==
    /\ pc = "returned"
    /\ threads > 1
    /\ prev.called
    /\ prev.pc = "returned"
    /\ Len(results) >= 3
    /\ \E c \in Cells : out.grids[1].data[c] # out.grids[2].data[c]

\* what use_mcc computes from the coordinates, first guess and border of
\* the point of cell c
PointMatch(c) ==
    use_mcc(loc.x1_dst[c], loc.y1_dst[c], loc.fg.x2fg[c], loc.fg.y2fg[c],
            loc.fg.border[c], Band(inp.n1), Band(inp.n2), inp.img_size,
            loc.alpha0, inp.kwargs)

\* C5: in parallel mode the k-th gathered result is the result of task k,
\* and the returned grids hold, in the cell of every valid point, the angle,
\* score, curvature and matched position computed from that point's own
\* coordinates, first guess and border.
C5_GatherKeepsTaskOrder ==
    /\ (pc \in {"gathered", "returned"} /\ threads > 0) =>
           \A k \in 1..Len(results) :
               results[k] = use_mcc_mp(k - 1, SubSeq(loc.args, 1, 9), loc.args[10]).val
    /\ (pc = "returned" /\ threads > 0 /\ Len(results) > 0) =>
           \A c \in Cells : loc.gpi[c] =>
               /\ out.grids[3].data[c] = PointMatch(c).val[3]
               /\ out.grids[4].data[c] = PointMatch(c).val[4]
               /\ out.grids[5].data[c] = PointMatch(c).val[5]
               /\ out.grids[6].data[c] = PointMatch(c).val[1] + 2 * inp.n2.ox
               /\ out.grids[7].data[c] = PointMatch(c).val[2] + 2 * inp.n2.oy

C5_Witness ==
    /\ pc = "returned"
    /\ threads > 1
    /\ Len(results) >= 3
    /\ results[1] # results[2]
    /\ results[2] # results[3]

\* the arguments the call is to reject
BadArguments ==
    \/ Len(inp.y1) # Len(inp.x1) \/ Len(inp.x2) # Len(inp.x1) \/ Len(inp.y2) # Len(inp.x1)
    \/ inp.img_size <= 0
    \/ threads < 0

\* C9 (as stated): with correspondence sequences of different lengths, an
\* img_size that is not positive or a negative threads, no matching task is
\* run and no grids are returned.
C9_BadArgumentsFailBeforeMatching ==
    (pc # "idle" /\ BadArguments) => (ran = {} /\ pc \notin {"gathered", "returned"})

\* C10 (as stated): when a call has returned or raised, shared_args and
\* shared_kwargs of the calling process are what they were before the call.
C10_GlobalsUntouched ==
    pc \in {"returned", "raised"} => <<shared_args, shared_kwargs>> = shared_before

\* C10 (amended): after a call with threads > 0 the caller's shared_args and
\* shared_kwargs are what they were before the call; after a call with
\* threads = 0 that reached the matching they hold the arguments of that
\* call, and a later call finds them there.
C10_GlobalsUntouchedOnlyByPool ==
    pc \in {"returned", "raised"} =>
        /\ threads # 0 => <<shared_args, shared_kwargs>> = shared_before
        /\ (threads = 0 /\ loc.fg.raised = "") =>
               /\ shared_args = SubSeq(loc.args, 1, 9)
               /\ shared_kwargs = loc.args[10]

C10_Witness ==
    /\ pc = "returned"
    /\ threads > 0
    /\ prev.called
    /\ shared_before # <<None, None>>
    /\ shared_args # None

----------------------------------------------------------------------------
(* Claims about rotate_and_match (checked under SpecRM)                    *)

RmDone == pc = "rm_done"

\* the template cut for the k-th candidate angle, and its correlation maximum
TemplateOf(k) ==
    get_rotated_template(inp.img1, inp.y, inp.x, inp.img_size, inp.angles[k] - inp.alpha0)

FullSize(k) == TemplateOf(k)[1] >= inp.img_size /\ TemplateOf(k)[2] >= inp.img_size

Score(k) ==
    MatchMax(inp.img1, inp.img2, inp.x, inp.y, inp.image.x0, inp.image.y0, inp.angles[k])

\* the first position, in the order of the list, of a maximal score
FirstBest ==
    CHOOSE k \in 1..Len(inp.angles) :
        /\ \A j \in 1..Len(inp.angles) : Score(j) <= Score(k)
        /\ \A j \in 1..(k - 1) : Score(j) < Score(k)

PeakOf(k) ==
    MatchArg(inp.img1, inp.img2, inp.x, inp.y, inp.image.x0, inp.image.y0, inp.angles[k],
             inp.image.rows - TemplateOf(k)[1] + 1, inp.image.cols - TemplateOf(k)[2] + 1)

AllFullSize == Len(inp.angles) > 0 /\ \A k \in 1..Len(inp.angles) : FullSize(k)

\* C11: for a non-empty list of angles whose templates all have full size,
\* rotate_and_match returns the first angle of the list that attains the
\* maximal score (a later angle of equal score does not replace it), with
\* that score, and the curvature and the displacement (in half pixels) come
\* from the correlation surface and the peak of that same angle.
C11_FirstBestAngle ==
    (RmDone /\ AllFullSize) =>
        /\ loc.raised = ""
        /\ Len(loc.val) = 7
        /\ loc.val[3] = inp.angles[FirstBest]
        /\ loc.val[4] = Score(FirstBest)
        /\ loc.val[5] = Hessian(inp.img1, inp.img2, inp.x, inp.y,
                                inp.image.x0, inp.image.y0, inp.angles[FirstBest])
        /\ loc.val[1] = 2 * PeakOf(FirstBest)[2]
                          - (inp.image.cols - TemplateOf(FirstBest)[2])
        /\ loc.val[2] = 2 * PeakOf(FirstBest)[1]
                          - (inp.image.rows - TemplateOf(FirstBest)[1])

\* two different angles tie at the maximum and the earlier one is returned
C11_Witness ==
    /\ RmDone /\ AllFullSize /\ loc.raised = ""
    /\ \E k \in 1..Len(inp.angles) :
          /\ k > FirstBest
          /\ Score(k) = Score(FirstBest)
          /\ inp.angles[k] # inp.angles[FirstBest]
          /\ Hessian(inp.img1, inp.img2, inp.x, inp.y, inp.image.x0, inp.image.y0,
                     inp.angles[k]) # loc.val[5]
    /\ loc.val[3] = inp.angles[FirstBest]

\* C12: rotate_and_match returns the six NaN as soon as one candidate angle,
\* in the order of the list, yields a template smaller than img_size, also
\* when other angles of the list yield a full-size template; and it returns
\* the six NaN in no other case.
C12_NaNWhenAnyTemplateSmall ==
    RmDone =>
        /\ (\E k \in 1..Len(inp.angles) : ~FullSize(k))
              => (loc.raised = "" /\ loc.val = NaN6)
        /\ (loc.raised = "" /\ loc.val = NaN6)
              => (\E k \in 1..Len(inp.angles) : ~FullSize(k))

\* C12 as stated: the six NaN only if every angle yields a small template,
\* and a valid result among the full-size angles if one of them does.
C12_AsStated ==
    RmDone =>
        /\ (loc.raised = "" /\ loc.val = NaN6)
              => (\A k \in 1..Len(inp.angles) : ~FullSize(k))
        /\ (\E k \in 1..Len(inp.angles) : FullSize(k))
              => /\ loc.raised = ""
                 /\ Len(loc.val) = 7
                 /\ \E k \in 1..Len(inp.angles) : FullSize(k) /\ loc.val[3] = inp.angles[k]

\* the first angle gave a full-size template, a later one did not
C12_Witness ==
    /\ RmDone /\ Len(inp.angles) > 1 /\ FullSize(1)
    /\ \E k \in 2..Len(inp.angles) : ~FullSize(k)
    /\ loc.raised = "" /\ loc.val = NaN6

----------------------------------------------------------------------------
(* The border where the local interpolation is undefined (under SpecFG)    *)

\* the border of the policy in use before lines 315-317, and what the
\* clamping of lines 315-316 alone makes of it
PolicyBorder ==
    IF inp.kwargs.old_border
    THEN BorderDistance(loc.x1_dst, loc.y1_dst, inp.x1, inp.y1, shape(inp.n1),
                        inp.kwargs.max_border).border
    ELSE BorderError(loc.x1_dst, loc.y1_dst, inp.x1, inp.y1, inp.x2, inp.y2).border

Clamped(k) ==
    LET lo == inp.kwargs.min_border
        hi == inp.kwargs.max_border
        b1 == IF ~IsNaN(PolicyBorder[k]) /\ lo > 0 /\ PolicyBorder[k] < lo * lo
              THEN lo * lo ELSE PolicyBorder[k]
    IN IF ~IsNaN(b1) /\ (hi < 0 \/ b1 > hi * hi) THEN hi * hi ELSE b1

\* the local (griddata) first guess of point k is undefined
LocalUndefined(k) ==
    IsNaN(griddata(inp.x1, inp.y1, inp.y2, loc.x1_dst[k], loc.y1_dst[k]))

Interpolated == FgDone /\ Len(inp.x1) > inp.kwargs.min_fg_pts

\* C13: on the interpolation path the border of a query point is max_border
\* exactly when its local (griddata) first guess is undefined, whether or not
\* the polynomial then fills the first guess; every other point has its
\* clamped policy border.
C13_MaxBorderWhereLocalUndefined ==
    Interpolated =>
        \A k \in Points :
            loc.fg.border[k] = IF LocalUndefined(k)
                               THEN inp.kwargs.max_border * inp.kwargs.max_border
                               ELSE Clamped(k)

\* C13 as stated: a border differs from the clamped policy border only where
\* the first guess is still NaN after the backfill, and a point filled from
\* the polynomial keeps its clamped policy border.
C13_AsStated ==
    Interpolated =>
        \A k \in Points :
            /\ loc.fg.border[k] # Clamped(k) => IsNaN(loc.fg.y2fg[k])
            /\ (LocalUndefined(k) /\ ~IsNaN(loc.fg.y2fg[k]))
                  => loc.fg.border[k] = Clamped(k)

\* distance policy: a point outside the convex hull, filled from the
\* polynomial, whose clamped distance is below max_border, has max_border
C13_Witness ==
    /\ Interpolated /\ inp.kwargs.old_border
    /\ \E k \in Points :
          /\ LocalUndefined(k)
          /\ ~IsNaN(loc.fg.y2fg[k])
          /\ Clamped(k) < inp.kwargs.max_border * inp.kwargs.max_border
          /\ loc.fg.border[k] = inp.kwargs.max_border * inp.kwargs.max_border

----------------------------------------------------------------------------
(* The distance policy (checked under SpecBD)                              *)

\* query point k lies inside image 1
InsideImage1(k) ==
    /\ ~IsNaN(inp.x1_dst[k]) /\ ~IsNaN(inp.y1_dst[k])
    /\ inp.x1_dst[k] >= 0 /\ inp.x1_dst[k] < inp.n1.w
    /\ inp.y1_dst[k] >= 0 /\ inp.y1_dst[k] < inp.n1.h

\* C14: under the distance policy, for every shape of image 1, the border
\* before clamping of a query point inside image 1 is the distance (squared
\* here) from its own row and column to the nearest keypoint, and the border
\* of every other query point is max_border.
C14_DistanceAtOwnPixel ==
    pc = "bd_done" =>
        /\ loc.raised = ""
        /\ \A k \in 1..Len(inp.x1_dst) :
              loc.border[k] =
                  IF InsideImage1(k)
                  THEN get_distance_to_nearest_keypoint(inp.x1, inp.y1, shape(inp.n1),
                                                        inp.y1_dst[k], inp.x1_dst[k])
                  ELSE inp.max_border * inp.max_border

----------------------------------------------------------------------------
(* The matching tasks of one call (checked under Spec and FairSpec)        *)

\* the call got as far as the matching tasks: N = NTasks(loc) valid points
Dispatched == Prepared /\ threads >= 0

AllTasks == 0..(NTasks(loc) - 1)

\* C15 (as stated): a call with N valid points ends by returning, and it ends
\* only after the task of every index 0..N-1 has been executed.
C15_EveryTaskRunsAndCallReturns ==
    (Dispatched /\ pc \in {"returned", "raised"}) =>
        (pc = "returned" /\ ran = AllTasks)

\* no matching task of the current call raises
NoTaskRaises ==
    \A i \in AllTasks : use_mcc_mp(i, SubSeq(loc.args, 1, 9), loc.args[10]).raised = ""

\* What holds of the tasks when none of them raises: a step that executes a
\* task executes an index not executed before in this call; with threads = 0
\* the indices executed so far are 0..k-1 for the k results so far; the call
\* has the gathered list only when every index has been executed; and the
\* call returns.
TasksOnceInOrderThenReturn ==
    /\ [][(SeqStep \/ \E w \in DOMAIN workers : WorkerRun(w)) => ran' # ran]_vars
    /\ [](pc = "seq" => ran = 0..(Len(results) - 1))
    /\ []((Dispatched /\ pc \in {"gathered", "returned"}) => ran = AllTasks)
    /\ ((pc \in {"seq", "map"} /\ NoTaskRaises) ~> pc = "returned")

----------------------------------------------------------------------------
(* The windows read by a matching task (checked under Spec)                *)

\* the slice indices of the window of image 2 of task i, and of the crop of
\* image 1 for one candidate angle
WindowOfTask(i) ==
    WindowRange(loc.args[3][i + 1], loc.args[4][i + 1], loc.args[5][i + 1], loc.args[8])

CropOfTask(i, angle) ==
    TemplateCrop(loc.args[2][i + 1], loc.args[1][i + 1], loc.args[8], angle - loc.args[9])

\* start and stop indices lie within an axis of length n
Within(start, stop, n) == 0 <= start /\ start <= stop /\ stop <= n

\* C16: for every point that passed the mask with margin >= 0 and was
\* matched, the window of image 2 has all its slice indices within image 2
\* and its full size 2 * int(img_size / 2) + 2 * border + 1 (border rounded
\* down or up), and the crop of image 1 of every candidate angle has all its
\* slice indices within image 1.
C16_WindowsInsideImages ==
    (Dispatched /\ inp.margin >= 0) =>
        \A i \in ran :
            /\ Within(WindowOfTask(i).r0, WindowOfTask(i).r1, inp.n2.h)
            /\ Within(WindowOfTask(i).c0, WindowOfTask(i).c1, inp.n2.w)
            /\ \A d \in {WindowOfTask(i).r1 - WindowOfTask(i).r0,
                         WindowOfTask(i).c1 - WindowOfTask(i).c0} :
                  /\ d >= 2 * TruncDiv(inp.img_size, 2) + 2 * Isqrt(loc.args[5][i + 1]) + 1
                  /\ d <= 2 * TruncDiv(inp.img_size, 2) + 2 * CeilSqrt(loc.args[5][i + 1]) + 1
            /\ \A k \in 1..Len(inp.kwargs.angles) :
                  /\ Within(CropOfTask(i, inp.kwargs.angles[k]).r0,
                            CropOfTask(i, inp.kwargs.angles[k]).r1, inp.n1.h)
                  /\ Within(CropOfTask(i, inp.kwargs.angles[k]).c0,
                            CropOfTask(i, inp.kwargs.angles[k]).c1, inp.n1.w)

====
